---- MODULE Spec2Model ----
(***************************************************************************)
(* Model of BB_wx_calcs/thermodynamics.py: the scalar thermodynamic        *)
(* conversions, the equivalent potential temperature THTE and the          *)
(* iterative wet-bulb solver WBT.                                          *)
(*                                                                         *)
(* Python floats are modelled as decimal floating-point numbers with Prec  *)
(* significant digits, rounded to nearest (ties to even), with the special *)
(* values inf and nan.  A value also records whether it is a plain Python  *)
(* float or a numpy float64 (field np): Python raises ZeroDivisionError    *)
(* and OverflowError where numpy returns inf or nan with a warning.  An    *)
(* exception is the value Raise, which every operation propagates.         *)
(***************************************************************************)
EXTENDS Integers, Sequences, FiniteSets, TLC

\* Significant decimal digits of a modelled float.
Prec == 7
\* Largest decimal exponent of a finite float (1.8e308 for a double).
EMax == 308
\* Terms of the Taylor series of exp and of the atanh series of log.
ExpTerms == 13
LogTerms == 4

\* The element of a one-element set.  { F(a) : a \in {x} } evaluates x once,
\* however often F uses a.
Val(S) == CHOOSE v \in S : TRUE

RECURSIVE Pow10(_)
Pow10(n) == IF n <= 0 THEN 1 ELSE 10 * Pow10(n - 1)

RECURSIVE NDigits(_)
NDigits(a) == IF a < 10 THEN 1 ELSE 1 + NDigits(a \div 10)

AbsInt(i) == IF i < 0 THEN -i ELSE i
SignInt(i) == IF i < 0 THEN -1 ELSE 1

(***************************************************************************)
(* Float values.                                                           *)
(***************************************************************************)
Fin(m, e, np) == [k |-> "fin", m |-> m, e |-> e, np |-> np]
Zero(np)      == [k |-> "fin", m |-> 0, e |-> 0, np |-> np]
Inf(s, np)    == [k |-> "inf", m |-> s, e |-> 0, np |-> np]
NaN(np)       == [k |-> "nan", m |-> 0, e |-> 0, np |-> np]
\* A Python complex number (a negative float raised to a fractional power).
Cplx          == [k |-> "complex", m |-> 0, e |-> 0, np |-> FALSE]
\* A raised exception: ZeroDivisionError or OverflowError.
Raise         == [k |-> "raise", m |-> 0, e |-> 0, np |-> FALSE]

IsFin(a)   == a.k = "fin"
IsNaN(a)   == a.k = "nan"
IsRaise(a) == a.k = "raise"
IsZero(a)  == Val({ x.k = "fin" /\ x.m = 0 : x \in {a} })

\* q rounded up by one when the discarded part r is above half, or is half
\* and q is odd (round half to even).
RoundHE(q0, r0, half) ==
  Val({ IF r > half \/ (r = half /\ q % 2 = 1) THEN q + 1 ELSE q :
        q \in {q0}, r \in {r0} })

\* The float of sign s and magnitude a * 10^e, a >= 0 an integer: a is
\* brought to Prec digits, overflow gives inf and underflow zero.
Norm(s, a0, e, np) ==
  Val({ IF a = 0 THEN Zero(np)
        ELSE Val({ Val({ LET up == q0 = Pow10(Prec)
                             q  == IF up THEN Pow10(Prec - 1) ELSE q0
                             ee == e + sh + (IF up THEN 1 ELSE 0)
                         IN  IF ee + Prec - 1 > EMax THEN Inf(s, np)
                             ELSE IF ee + Prec - 1 < -EMax THEN Zero(np)
                             ELSE Fin(s * q, ee, np) :
                         q0 \in { IF sh > 0
                                    THEN RoundHE(a \div Pow10(sh), a % Pow10(sh),
                                                 5 * Pow10(sh - 1))
                                    ELSE a * Pow10(-sh) } }) :
                   sh \in { NDigits(a) - Prec } }) :
        a \in {a0} })

\* A Python float literal m * 10^e, and a Python int used as a float.
Lit(m, e) == Norm(SignInt(m), AbsInt(m), e, FALSE)
IntF(i)   == Lit(i, 0)

Neg(x) == Val({ IF a.k \in {"fin", "inf"} THEN [a EXCEPT !.m = -a.m] ELSE a :
                a \in {x} })
Abs(x) == Val({ IF a.k \in {"fin", "inf"} THEN [a EXCEPT !.m = AbsInt(a.m)] ELSE a :
                a \in {x} })
AsNp(x) == Val({ IF a.k \in {"raise", "complex"} THEN a ELSE [a EXCEPT !.np = TRUE] :
                 a \in {x} })

\* a + b of two finite floats, with one guard digit.
AddFin(a, b, np) ==
  IF a.m = 0 THEN [b EXCEPT !.np = np]
  ELSE IF b.m = 0 THEN [a EXCEPT !.np = np]
  ELSE LET big == IF a.e >= b.e THEN a ELSE b
           sml == IF a.e >= b.e THEN b ELSE a
           d   == big.e - sml.e
       IN  IF d > Prec + 1 THEN [big EXCEPT !.np = np]
           ELSE Val({ Norm(SignInt(sum), AbsInt(sum), big.e - 1, np) :
                      sum \in { big.m * 10
                                + SignInt(sml.m) * ((AbsInt(sml.m) * 10) \div Pow10(d)) } })

Add(x, y) ==
  Val({ LET np == a.np \/ b.np
        IN  IF a.k = "raise" \/ b.k = "raise" THEN Raise
            ELSE IF a.k = "complex" \/ b.k = "complex" THEN Cplx
            ELSE IF a.k = "nan" \/ b.k = "nan" THEN NaN(np)
            ELSE IF a.k = "inf" /\ b.k = "inf"
                   THEN IF a.m = b.m THEN Inf(a.m, np) ELSE NaN(np)
            ELSE IF a.k = "inf" THEN Inf(a.m, np)
            ELSE IF b.k = "inf" THEN Inf(b.m, np)
            ELSE AddFin(a, b, np) :
        a \in {x}, b \in {y} })

Sub(a, b) == Add(a, Neg(b))

\* a * b of two finite floats: the exact product, by limbs of four digits,
\* rounded once.
MulFin(a, b, np) ==
  IF a.m = 0 \/ b.m = 0 THEN Zero(np)
  ELSE LET L   == 10000
           x   == AbsInt(a.m)
           y   == AbsInt(b.m)
           p1  == (x % L) * (y % L)
           p2  == (x \div L) * (y % L) + (x % L) * (y \div L)
           p3  == (x \div L) * (y \div L)
           t   == p2 + (p1 \div L)
       IN  Val({ LET k == IF hi >= Pow10(2 * Prec - 9) THEN Prec ELSE Prec - 1
                     q == hi * Pow10(8 - k) + (lo8 \div Pow10(k))
                     r == lo8 % Pow10(k)
                 IN  Norm(SignInt(a.m) * SignInt(b.m),
                          RoundHE(q, r, 5 * Pow10(k - 1)), a.e + b.e + k, np) :
                 hi \in { p3 + (t \div L) }, lo8 \in { (t % L) * L + (p1 % L) } })

Mul(x, y) ==
  Val({ LET np == a.np \/ b.np
        IN  IF a.k = "raise" \/ b.k = "raise" THEN Raise
            ELSE IF a.k = "complex" \/ b.k = "complex" THEN Cplx
            ELSE IF a.k = "nan" \/ b.k = "nan" THEN NaN(np)
            ELSE IF a.k = "inf" \/ b.k = "inf"
                   THEN IF IsZero(a) \/ IsZero(b) THEN NaN(np)
                        ELSE Inf(SignInt(a.m) * SignInt(b.m), np)
            ELSE MulFin(a, b, np) :
        a \in {x}, b \in {y} })

\* Long division: n more digits of the quotient q, remainder r, divisor y.
RECURSIVE LongDiv(_, _, _, _)
LongDiv(q0, r0, y, n) ==
  Val({ IF n = 0 THEN <<q, r>>
        ELSE LongDiv(q * 10 + ((r * 10) \div y), (r * 10) % y, y, n - 1) :
        q \in {q0}, r \in {r0} })

\* a / b of two finite floats, b not zero: Prec + 1 digits of the quotient
\* and a sticky remainder, rounded once.
DivFin(a, b, np) ==
  IF a.m = 0 THEN Zero(np)
  ELSE LET x == AbsInt(a.m)
           y == AbsInt(b.m)
           n == IF x >= y THEN Prec ELSE Prec + 1
       IN  Val({ LET q == qr[1] \div 10
                     g == qr[1] % 10
                 IN  Norm(SignInt(a.m) * SignInt(b.m),
                          IF g > 5 \/ (g = 5 /\ (qr[2] # 0 \/ q % 2 = 1))
                            THEN q + 1 ELSE q,
                          a.e - b.e - n + 1, np) :
                 qr \in { LongDiv(x \div y, x % y, y, n) } })

\* IEEE division, as numpy does it: x/0 is inf or nan (with a warning).
NpDiv(x, y) ==
  Val({ LET np == a.np \/ b.np
        IN  IF a.k = "raise" \/ b.k = "raise" THEN Raise
            ELSE IF a.k = "complex" \/ b.k = "complex" THEN Cplx
            ELSE IF a.k = "nan" \/ b.k = "nan" THEN NaN(np)
            ELSE IF a.k = "inf" THEN IF b.k = "inf" THEN NaN(np)
                                     ELSE Inf(SignInt(a.m) * SignInt(b.m), np)
            ELSE IF b.k = "inf" THEN Zero(np)
            ELSE IF b.m = 0 THEN IF a.m = 0 THEN NaN(np) ELSE Inf(SignInt(a.m), np)
            ELSE DivFin(a, b, np) :
        a \in {x}, b \in {y} })

\* The operator / : between two Python floats a zero divisor raises
\* ZeroDivisionError; with a numpy operand the division is numpy's.
Div(x, y) ==
  Val({ IF a.k = "raise" \/ b.k = "raise" THEN Raise
        ELSE IF ~a.np /\ ~b.np /\ IsZero(b) /\ a.k # "complex" THEN Raise
        ELSE NpDiv(a, b) :
        a \in {x}, b \in {y} })

\* Comparisons; any comparison with nan is false.
Lt(x, y) ==
  Val({ /\ a.k \in {"fin", "inf"} /\ b.k \in {"fin", "inf"}
        /\ IF a.k = "inf" THEN a.m < 0 /\ ~(b.k = "inf" /\ b.m < 0)
           ELSE IF b.k = "inf" THEN b.m > 0
           ELSE Sub(a, b).m < 0 :
        a \in {x}, b \in {y} })
Gt(a, b) == Lt(b, a)
Eq(x, y) ==
  Val({ a.k \in {"fin", "inf"} /\ a.k = b.k /\ a.m = b.m /\ a.e = b.e :
        a \in {x}, b \in {y} })

(***************************************************************************)
(* exp, log and power.                                                     *)
(***************************************************************************)
One  == IntF(1)
LN10 == Lit(230258509, -8)
\* ln(10) in two parts, the first short enough for n * LN10Hi to be exact.
LN10Hi == Lit(2302, -3)
LN10Lo == Lit(585092994, -12)

\* The integer nearest to a finite float of magnitude below 10^5.
ToInt(x) ==
  Val({ IF a.e >= 0 THEN a.m * Pow10(a.e)
        ELSE IF -a.e > 9 THEN 0
        ELSE SignInt(a.m) * RoundHE(AbsInt(a.m) \div Pow10(-a.e),
                                    AbsInt(a.m) % Pow10(-a.e), 5 * Pow10(-a.e - 1)) :
        a \in {x} })

\* 1 + r/1 * (1 + r/2 * (... (1 + r/ExpTerms))): the Taylor series of exp(r),
\* evaluated from the innermost term; acc0 is the part from term k + 1 on.
\* r is a value.
RECURSIVE ExpSeries(_, _, _)
ExpSeries(r, k0, acc0) ==
  Val({ IF k = 0 THEN acc
        ELSE ExpSeries(r, k - 1, Add(One, Mul(NpDiv(r, IntF(k)), acc))) :
        k \in {k0}, acc \in {acc0} })

\* exp of a finite float: x = n*ln(10) + r, exp(x) = exp(r) * 10^n.
\* |x| >= 10^4 is beyond the exponent range.
ExpFin(x0) ==
  Val({ IF x.m = 0 THEN One
        ELSE IF x.e + Prec - 1 >= 4
          THEN (IF x.m > 0 THEN Inf(1, FALSE) ELSE Zero(FALSE))
        ELSE Val({ Val({ Val({ Norm(1, s.m, s.e + n, FALSE) :
                               s \in { ExpSeries(r, ExpTerms, One) } }) :
                         r \in { Sub(Sub(x, Mul(IntF(n), LN10Hi)),
                                     Mul(IntF(n), LN10Lo)) } }) :
                   n \in { ToInt(NpDiv(x, LN10)) } }) :
        x \in {x0} })

\* numpy.exp: overflow gives inf (with a warning), never an exception.
NpExp(x0) ==
  Val({ IF x.k \in {"raise", "complex"} THEN x
        ELSE IF x.k = "nan" THEN NaN(TRUE)
        ELSE IF x.k = "inf" THEN (IF x.m > 0 THEN Inf(1, TRUE) ELSE Zero(TRUE))
        ELSE AsNp(ExpFin(x)) :
        x \in {x0} })

\* The points c the argument of log is divided by, with ln(c).
LogTable ==
  << <<Lit(1, 0), Zero(FALSE)>>,
     <<Lit(125, -2), Lit(223143551, -9)>>,
     <<Lit(16, -1),  Lit(470003629, -9)>>,
     <<Lit(2, 0),    Lit(693147181, -9)>>,
     <<Lit(25, -1),  Lit(916290732, -9)>>,
     <<Lit(32, -1),  Lit(116315081, -8)>>,
     <<Lit(4, 0),    Lit(138629436, -8)>>,
     <<Lit(5, 0),    Lit(160943791, -8)>>,
     <<Lit(64, -1),  Lit(185629799, -8)>>,
     <<Lit(8, 0),    Lit(207944154, -8)>>,
     <<Lit(10, 0),   LN10>> >>

\* The last point of the table tab not above 1.12 * y (tab and y values, y in
\* [1, 10)).
RECURSIVE LogPoint(_, _, _)
LogPoint(tab, y, i) ==
  IF i = Len(tab) THEN i
  ELSE IF Lt(Mul(y, Lit(112, -2)), tab[i + 1][1]) THEN i
  ELSE LogPoint(tab, y, i + 1)

\* z + z^3/3 + z^5/5 + ...: the series of atanh(z), term k on, zp = z^(2k+1).
RECURSIVE AtanhSeries(_, _, _)
AtanhSeries(zp0, zz, k) ==
  IF k > LogTerms THEN Zero(FALSE)
  ELSE Val({ Add(NpDiv(zp, IntF(2 * k + 1)), AtanhSeries(Mul(zp, zz), zz, k + 1)) :
             zp \in {zp0} })

\* log of a finite float x > 0: x = y * 10^n = w * c * 10^n with w near 1,
\* ln(x) = n*ln(10) + ln(c) + 2*atanh((w-1)/(w+1)).
LnFin(x0) ==
  Val({ LET n == x.e + Prec - 1
            y == Fin(x.m, 1 - Prec, FALSE)
        IN  Val({ Val({ Val({ Add(Add(Mul(IntF(n), LN10), c[2]),
                                  Mul(IntF(2), AtanhSeries(z, zz, 0))) :
                              zz \in { Mul(z, z) } }) :
                        z \in { Val({ NpDiv(Sub(w, One), Add(w, One)) :
                                      w \in { NpDiv(y, c[1]) } }) } }) :
                  c \in { Val({ tab[LogPoint(tab, y, 1)] : tab \in { LogTable } }) } }) :
        x \in {x0} })

\* numpy.log: log of a negative number is nan, log(0) is -inf (warnings).
NpLog(x0) ==
  Val({ IF x.k \in {"raise", "complex"} THEN x
        ELSE IF x.k = "nan" THEN NaN(TRUE)
        ELSE IF x.k = "inf" THEN (IF x.m > 0 THEN Inf(1, TRUE) ELSE NaN(TRUE))
        ELSE IF x.m = 0 THEN Inf(-1, TRUE)
        ELSE IF x.m < 0 THEN NaN(TRUE)
        ELSE AsNp(LnFin(x)) :
        x \in {x0} })

\* Whether a finite float (a value) is an integer, and an odd one.
IsInt(b) == b.m = 0 \/ b.e >= 0 \/ (-b.e < Prec /\ b.m % Pow10(-b.e) = 0)
IsOdd(b) == b.m # 0 /\ ((b.e = 0 /\ b.m % 2 # 0)
                        \/ (b.e < 0 /\ -b.e < Prec /\ b.m % Pow10(-b.e) = 0
                            /\ (b.m \div Pow10(-b.e)) % 2 # 0))

\* a ** b for finite a > 0 and finite b: exp(b * ln(a)).
PowPos(a, b) == ExpFin(Mul(b, LnFin(a)))

\* a ** b for finite values a and b, as IEEE pow: a negative base with a
\* fractional exponent gives nan, 0 ** negative gives inf.
PowFin(a, b) ==
  IF b.m = 0 \/ Eq(a, One) THEN One
  ELSE IF a.m = 0 THEN (IF b.m > 0 THEN Zero(FALSE) ELSE Inf(1, FALSE))
  ELSE IF a.m < 0 /\ ~IsInt(b) THEN NaN(FALSE)
  ELSE Val({ IF a.m < 0 /\ IsOdd(b) THEN Neg(r) ELSE r :
             r \in { PowPos(Abs(a), b) } })

\* pow of two values with the special values.
PowIEEE(a, b) ==
  IF IsZero(b) \/ Eq(a, One) THEN One
  ELSE IF a.k = "nan" \/ b.k = "nan" THEN NaN(FALSE)
  ELSE IF b.k = "inf"
    THEN (IF Eq(Abs(a), One) THEN One
          ELSE IF Lt(Abs(a), One) = (b.m > 0) THEN Zero(FALSE) ELSE Inf(1, FALSE))
  ELSE IF a.k = "inf"
    THEN (IF b.m < 0 THEN Zero(FALSE)
          ELSE IF a.m < 0 /\ IsOdd(b) THEN Inf(-1, FALSE) ELSE Inf(1, FALSE))
  ELSE PowFin(a, b)

\* The operator ** : with a numpy operand it is numpy.power (nan and inf with
\* warnings); between Python floats a negative base with a fractional
\* exponent gives a complex number, 0.0 ** negative raises ZeroDivisionError
\* and an overflowing result raises OverflowError.
Pow(x, y) ==
  Val({ LET py == ~a.np /\ ~b.np /\ IsFin(a) /\ IsFin(b)
        IN  IF a.k = "raise" \/ b.k = "raise" THEN Raise
            ELSE IF a.k = "complex" \/ b.k = "complex" THEN Cplx
            ELSE IF py /\ a.m < 0 /\ ~IsInt(b) THEN Cplx
            ELSE IF py /\ a.m = 0 /\ b.m < 0 THEN Raise
            ELSE Val({ IF a.np \/ b.np THEN AsNp(r)
                       ELSE IF py /\ r.k = "inf" THEN Raise
                       ELSE r :
                       r \in { PowIEEE(a, b) } }) :
        a \in {x}, b \in {y} })

(***************************************************************************)
(* The functions of thermodynamics.py.  Their arguments are values.        *)
(***************************************************************************)

\* Variant: the offset of the ice point, 273.16, in place of 273.15.
c_to_K_Offset(c) == Add(c, Lit(27316, -2))

c_to_K(c) == Add(c, Lit(27315, -2))

\* Variant: standard sea-level pressure as the reference pressure p0.
TempPress_to_PotTemp_P0(temp, press) ==
  LET R  == Lit(287, 0)
      cp == Lit(1004, 0)
      p0 == Lit(101325, -2)
  IN  Mul(c_to_K(temp), Pow(Div(p0, press), Div(R, cp)))

TempPress_to_PotTemp(temp, press) ==
  LET R  == Lit(287, 0)
      cp == Lit(1004, 0)
      p0 == Lit(1000, 0)
  IN  Mul(c_to_K(temp), Pow(Div(p0, press), Div(R, cp)))

DwptPress_to_MixRatio(Tdew, press) ==
  Val({ Mul(Lit(62197, -2), Div(e, Sub(press, e))) :
        e \in { Mul(Lit(611, -2),
                    Pow(IntF(10), Div(Mul(Lit(75, -1), Tdew),
                                      Add(Lit(2373, -1), Tdew)))) } })

\* The coefficients a0..a9 of svpwat, written with their nine leading digits.
SvpCoeffs ==
  << Lit(999996876, -9),  Lit(-908269500, -11), Lit(787361687, -13),
     Lit(-611179573, -15), Lit(438841874, -17),  Lit(-298838849, -19),
     Lit(218744250, -21),  Lit(-178923211, -23), Lit(111120180, -25),
     Lit(-309945714, -28) >>

\* The nested polynomial a[1] + t*(a[2] + t*(...)) of svpwat, evaluated from
\* the innermost parenthesis; acc0 is a[i+1] + t*(...).  a and t are values.
RECURSIVE Horner(_, _, _, _)
Horner(a, t, i0, acc0) ==
  Val({ IF i = 0 THEN acc
        ELSE Horner(a, t, i - 1, Add(a[i], Mul(t, acc))) :
        i \in {i0}, acc \in {acc0} })

\* Variant: the leading coefficient a0 taken as 1.
svpwat_A0One(t0) ==
  Val({ Div(Lit(61078, -4), Pow(Horner(a, t, 9, a[10]), IntF(8))) :
        t \in { Sub(t0, Lit(27316, -2)) },
        a \in { [SvpCoeffs EXCEPT ![1] = Lit(1, 0)] } })

svpwat(t0) ==
  Val({ Div(Lit(61078, -4), Pow(Horner(a, t, 9, a[10]), IntF(8))) :
        t \in { Sub(t0, Lit(27316, -2)) }, a \in { SvpCoeffs } })

satmixwat(p, t) ==
  LET es == svpwat(t)
  IN  Div(Mul(Lit(622, 0), es), p)

rh_to_mr_wat(rh, p, t) == Mul(Mul(rh, Lit(1, -2)), satmixwat(p, t))

\* Lines 145-148 of THTE: the mixing ratio mixr.
THTE_mixr(p, td) ==
  LET vapr == Mul(Lit(6112, -3),
                  NpExp(Div(Mul(Lit(1767, -2), td), Add(td, Lit(2435, -1)))))
      corr == Add(Lit(1001, -3),
                  Mul(Div(Sub(p, Lit(100, 0)), Lit(900, 0)), Lit(34, -4)))
  IN  Val({ Mul(Mul(Lit(62197, -5), Div(e, Sub(p, e))), Lit(1000, 0)) :
            e \in { Mul(corr, vapr) } })

\* Lines 151-152 of THTE: the temperature of the lifted condensation level.
THTE_TLCL(t, td) ==
  Val({ Add(Div(Mul(Lit(800, 0), tdk),
                Add(Lit(800, 0),
                    Mul(tdk, NpLog(Div(Add(t, Lit(27315, -2)),
                                       Add(td, Lit(27315, -2))))))),
            Lit(56, 0)) :
        tdk \in { Sub(Add(td, Lit(27315, -2)), Lit(56, 0)) } })

THTE(p, t, td) ==
  Val({ LET TLCL == THTE_TLCL(t, td)
            E    == Mul(Div(IntF(287), IntF(1004)),
                        Sub(Lit(1, 0), Mul(Mul(Lit(28, -2), Lit(1, -3)), mixr)))
            thtm == Mul(Add(Lit(27315, -2), t), Pow(Div(IntF(1000), p), E))
            e    == Mul(Sub(Div(Lit(3376, -3), TLCL), Lit(254, -5)),
                        Mul(mixr, Add(Lit(1, 0),
                                      Mul(Mul(Lit(81, -2), Lit(1, -3)), mixr))))
        IN  Mul(thtm, NpExp(e)) :
        mixr \in { THTE_mixr(p, td) } })

(***************************************************************************)
(* The state: one call of a library function at a time, made by a caller   *)
(* that draws the inputs.  WBT runs one loop iteration per step; its       *)
(* locals are the variables tg .. cor.  nTHTE, nskip and seed are history  *)
(* variables of the caller.                                                *)
(***************************************************************************)
VARIABLES
  pc,      \* "idle", "loop" (inside WBT), "done" (returned), "raised"
  fn,      \* the function called
  args,    \* its arguments
  ret,     \* its return value
  tg, tgnu, iterN, convrg, tenu, tenup, denom, cor,   \* locals of WBT
  nTHTE,   \* calls of THTE begun by this call of WBT
  nskip,   \* iterations of this call that found denom not greater than 0
  seed     \* T0 when tht was computed as THTE(pres, T0, T0)

vars == <<pc, fn, args, ret, tg, tgnu, iterN, convrg, tenu, tenup, denom, cor,
          nTHTE, nskip, seed>>

\* A local not yet assigned, and no value.
Unbound == [k |-> "unbound", m |-> 0, e |-> 0, np |-> FALSE]

\* The iteration cap of WBT.
MaxIter == 100
epsi    == Lit(1, -3)
K27315  == Lit(27315, -2)

(***************************************************************************)
(* Inputs.                                                                 *)
(***************************************************************************)
PyNaN == NaN(FALSE)

\* (pres, tht) given to WBT directly.
WBTInputs ==
  { <<Lit(1000, 0), Lit(300, 0)>>,      \* converges
    <<Lit(1000, 0), Lit(400, 0)>>,      \* denom < 0 at the first guess
    <<Lit(850, 0),  Lit(300, 0)>>,      \* converges
    <<Lit(1000, 0), Lit(0, 0)>>,        \* t + 273.15 = td + 273.15 = 0
    <<Lit(0, 0),    Lit(300, 0)>>,      \* 1000/p with p = 0
    <<Lit(1000, 0), Lit(2865, -2)>>,    \* td + 243.5 = 0 at tgnu + 1
    <<Lit(1000, 0), Lit(1, 300)>>,      \* val ** 1.05 overflows
    <<Lit(1000, 0), PyNaN>> }           \* denom is nan

\* (pres, T0): WBT is given tht = THTE(pres, T0, T0).
SeedInputs ==
  { <<Lit(1000, 0), Lit(-20, 0)>>,
    <<Lit(1000, 0), Lit(10, 0)>>,
    <<Lit(1000, 0), Lit(30, 0)>>,
    <<Lit(850, 0),  Lit(20, 0)>> }

WBTCalls ==
  { [pres |-> x[1], tht |-> x[2], seed |-> Unbound] : x \in WBTInputs }
  \cup
  { [pres |-> x[1], tht |-> THTE(x[1], x[2], x[2]), seed |-> x[2]] : x \in SeedInputs }

Temps  == { Lit(20, 0), Lit(0, 0), Lit(-55, -1), Lit(1234567, -7), Lit(-27315, -2),
            Lit(1, -9), Lit(123456789, 2), Lit(-2373, -1), Lit(-2435, -1), Lit(10, 0) }
Presss == { Lit(1000, 0), Lit(850, 0), Lit(0, 0), Lit(-500, 0) }
KTemps == { Lit(27316, -2), Lit(300, 0), Lit(250, 0), Lit(1, 10) }
RHs    == { Lit(50, 0), Lit(100, 0) }
DewTemps == { Lit(10, 0), Lit(-2435, -1), Lit(-27315, -2) }

(***************************************************************************)
(* WBT.                                                                    *)
(***************************************************************************)
Init ==
  /\ pc = "idle" /\ fn = "none" /\ args = <<>> /\ ret = Unbound
  /\ tg = Unbound /\ tgnu = Unbound /\ iterN = 0 /\ convrg = 0
  /\ tenu = Unbound /\ tenup = Unbound /\ denom = Unbound /\ cor = Unbound
  /\ nTHTE = 0 /\ nskip = 0 /\ seed = Unbound

\* Lines 101-112: the unused first guess tg, the seed tgnu and the counters.
WBTEntry(pres, tht) ==
  LET val == IF Gt(tht, Lit(270, 0)) THEN Sub(tht, Lit(270, 0)) ELSE IntF(0)
  IN  Val({ [raised |-> IsRaise(tg0), tg |-> tg0, tgnu |-> Sub(tht, K27315),
             iterN |-> 0, convrg |-> 0] :
            tg0 \in { Mul(Sub(tht, Mul(Lit(5, -1), Pow(val, Lit(105, -2)))),
                          Pow(Div(pres, Lit(1000, 0)), Lit(2, -1))) } })

Call_WBT ==
  /\ pc = "idle"
  /\ \E c \in WBTCalls :
       \E en \in {WBTEntry(c.pres, c.tht)} :
           /\ fn' = "WBT" /\ args' = <<c.pres, c.tht>> /\ seed' = c.seed
           /\ tg' = en.tg
           /\ IF en.raised
                THEN /\ pc' = "raised"
                     /\ UNCHANGED <<tgnu, iterN, convrg>>
                ELSE /\ pc' = "loop"
                     /\ tgnu' = en.tgnu /\ iterN' = en.iterN /\ convrg' = en.convrg
  /\ UNCHANGED <<ret, tenu, tenup, denom, cor, nTHTE, nskip>>

\* Variant: the correction is applied whatever the sign of denom.
LoopBody_NoGuard(pres, tht, g, c0) ==
  Val({ IF IsRaise(u)
          THEN [raised |-> TRUE, calls |-> 1, tenu |-> Unbound, tenup |-> Unbound,
                denom |-> Unbound, cor |-> c0, tgnu |-> g, convrg |-> 0]
        ELSE Val({
          IF IsRaise(up)
            THEN [raised |-> TRUE, calls |-> 2, tenu |-> u, tenup |-> Unbound,
                  denom |-> Unbound, cor |-> c0, tgnu |-> g, convrg |-> 0]
          ELSE Val({
            IF TRUE
              THEN Val({ [raised |-> FALSE, calls |-> 2, tenu |-> u, tenup |-> up,
                          denom |-> d, cor |-> c, tgnu |-> Add(g, c),
                          convrg |-> IF Lt(Abs(c), epsi) THEN 1 ELSE 0] :
                         c \in { Div(Sub(tht, u), Sub(up, u)) } })
            ELSE [raised |-> FALSE, calls |-> 2, tenu |-> u, tenup |-> up,
                  denom |-> d, cor |-> c0, tgnu |-> g, convrg |-> 0] :
            d \in { Sub(up, u) } }) :
          up \in { Val({ THTE(pres, tgnup, tgnup) :
                          tgnup \in { Add(g, Lit(1, 0)) } }) } }) :
        u \in { THTE(pres, g, g) } })

\* Variant: where denom is not greater than 0 the guess steps back one degree.
LoopBody_StepBack(pres, tht, g, c0) ==
  Val({ IF IsRaise(u)
          THEN [raised |-> TRUE, calls |-> 1, tenu |-> Unbound, tenup |-> Unbound,
                denom |-> Unbound, cor |-> c0, tgnu |-> g, convrg |-> 0]
        ELSE Val({
          IF IsRaise(up)
            THEN [raised |-> TRUE, calls |-> 2, tenu |-> u, tenup |-> Unbound,
                  denom |-> Unbound, cor |-> c0, tgnu |-> g, convrg |-> 0]
          ELSE Val({
            IF Gt(d, Zero(FALSE))
              THEN Val({ [raised |-> FALSE, calls |-> 2, tenu |-> u, tenup |-> up,
                          denom |-> d, cor |-> c, tgnu |-> Add(g, c),
                          convrg |-> IF Lt(Abs(c), epsi) THEN 1 ELSE 0] :
                         c \in { Div(Sub(tht, u), Sub(up, u)) } })
            ELSE [raised |-> FALSE, calls |-> 2, tenu |-> u, tenup |-> up,
                  denom |-> d, cor |-> c0, tgnu |-> Sub(g, Lit(1, 0)), convrg |-> 0] :
            d \in { Sub(up, u) } }) :
          up \in { Val({ THTE(pres, tgnup, tgnup) :
                          tgnup \in { Add(g, Lit(1, 0)) } }) } }) :
        u \in { THTE(pres, g, g) } })

\* Lines 115-124: one pass of the loop body from the guess g (a value); c0
\* is the value of cor before the pass.
LoopBody(pres, tht, g, c0) ==
  Val({ IF IsRaise(u)
          THEN [raised |-> TRUE, calls |-> 1, tenu |-> Unbound, tenup |-> Unbound,
                denom |-> Unbound, cor |-> c0, tgnu |-> g, convrg |-> 0]
        ELSE Val({
          IF IsRaise(up)
            THEN [raised |-> TRUE, calls |-> 2, tenu |-> u, tenup |-> Unbound,
                  denom |-> Unbound, cor |-> c0, tgnu |-> g, convrg |-> 0]
          ELSE Val({
            IF Gt(d, Zero(FALSE))
              THEN Val({ [raised |-> FALSE, calls |-> 2, tenu |-> u, tenup |-> up,
                          denom |-> d, cor |-> c, tgnu |-> Add(g, c),
                          convrg |-> IF Lt(Abs(c), epsi) THEN 1 ELSE 0] :
                         c \in { Div(Sub(tht, u), Sub(up, u)) } })
            ELSE [raised |-> FALSE, calls |-> 2, tenu |-> u, tenup |-> up,
                  denom |-> d, cor |-> c0, tgnu |-> g, convrg |-> 0] :
            d \in { Sub(up, u) } }) :
          up \in { Val({ THTE(pres, tgnup, tgnup) :
                          tgnup \in { Add(g, Lit(1, 0)) } }) } }) :
        u \in { THTE(pres, g, g) } })

\* Variant: the cap tested with <= (one pass too many).
LoopCond_OffByOne == iterN <= MaxIter /\ convrg # 1

\* Line 113: the loop condition.
LoopCond == iterN < MaxIter /\ convrg # 1

Iterate ==
  /\ pc = "loop" /\ LoopCond
  /\ \E b \in {LoopBody(args[1], args[2], tgnu, cor)} :
         /\ iterN' = iterN + 1
         /\ nTHTE' = nTHTE + b.calls
         /\ tenu' = b.tenu /\ tenup' = b.tenup /\ denom' = b.denom
         /\ cor' = b.cor /\ tgnu' = b.tgnu
         /\ convrg' = b.convrg
         /\ pc' = IF b.raised THEN "raised" ELSE "loop"
         /\ nskip' = IF ~b.raised /\ ~Gt(b.denom, Zero(FALSE)) THEN nskip + 1 ELSE nskip
  /\ UNCHANGED <<fn, args, ret, tg, seed>>

\* Lines 126-133.
WBTResult(cv, g) == IF cv # 1 THEN PyNaN ELSE Add(g, K27315)

Return_WBT ==
  /\ pc = "loop" /\ ~LoopCond
  /\ ret' = WBTResult(convrg, tgnu)
  /\ pc' = "done"
  /\ UNCHANGED <<fn, args, tg, tgnu, iterN, convrg, tenu, tenup, denom, cor,
                 nTHTE, nskip, seed>>

\* The call is over (returned or raised); its frame is gone.
Reset ==
  /\ pc \in {"done", "raised"}
  /\ pc' = "idle" /\ fn' = "none" /\ args' = <<>> /\ ret' = Unbound
  /\ tg' = Unbound /\ tgnu' = Unbound /\ iterN' = 0 /\ convrg' = 0
  /\ tenu' = Unbound /\ tenup' = Unbound /\ denom' = Unbound /\ cor' = Unbound
  /\ nTHTE' = 0 /\ nskip' = 0 /\ seed' = Unbound

(***************************************************************************)
(* The functions without a loop: one step each.                            *)
(***************************************************************************)
\* The effect of a call that returns or raises r0 in one step.
Scalar(f, a, r0) ==
  /\ \E r \in {r0} :
       /\ fn' = f /\ args' = a /\ ret' = r
       /\ pc' = IF IsRaise(r) THEN "raised" ELSE "done"
  /\ UNCHANGED <<tg, tgnu, iterN, convrg, tenu, tenup, denom, cor, nTHTE, nskip,
                 seed>>

Call_c_to_K ==
  /\ pc = "idle"
  /\ \E c \in Temps : Scalar("c_to_K", <<c>>, c_to_K(c))

Call_TempPress_to_PotTemp ==
  /\ pc = "idle"
  /\ \E t \in Temps, p \in Presss :
       Scalar("TempPress_to_PotTemp", <<t, p>>, TempPress_to_PotTemp(t, p))

Call_DwptPress_to_MixRatio ==
  /\ pc = "idle"
  /\ \E t \in Temps, p \in Presss :
       Scalar("DwptPress_to_MixRatio", <<t, p>>, DwptPress_to_MixRatio(t, p))

Call_rh_to_mr_wat ==
  /\ pc = "idle"
  /\ \E rh \in RHs, p \in Presss, t \in KTemps :
       Scalar("rh_to_mr_wat", <<rh, p, t>>, rh_to_mr_wat(rh, p, t))

Call_satmixwat ==
  /\ pc = "idle"
  /\ \E p \in Presss, t \in KTemps : Scalar("satmixwat", <<p, t>>, satmixwat(p, t))

Call_svpwat ==
  /\ pc = "idle"
  /\ \E t \in KTemps : Scalar("svpwat", <<t>>, svpwat(t))

Call_THTE ==
  /\ pc = "idle"
  /\ \E p \in Presss, t \in Temps, td \in DewTemps :
       Scalar("THTE", <<p, t, td>>, THTE(p, t, td))

Next ==
  \/ Call_WBT
  \/ Iterate
  \/ Return_WBT
  \/ Reset
  \/ Call_c_to_K
  \/ Call_TempPress_to_PotTemp
  \/ Call_DwptPress_to_MixRatio
  \/ Call_rh_to_mr_wat
  \/ Call_satmixwat
  \/ Call_svpwat
  \/ Call_THTE

Spec == Init /\ [][Next]_vars

\* The loop runs to its end: the interpreter keeps executing a call.
FairSpec == Spec /\ WF_vars(Iterate) /\ WF_vars(Return_WBT)

(***************************************************************************)
(* Properties.                                                             *)
(***************************************************************************)
InWBT     == fn = "WBT"
Returned  == pc = "done"
Tht       == args[2]
NotGt(a, b) == ~Gt(a, b)

\* C1: a call of WBT makes at most MaxIter = 100 passes of the loop, each
\* completed pass has evaluated THTE exactly twice (so at most 100 pairs of
\* evaluations per call), and the loop always ends.
C1_LoopBounded ==
  /\ [](/\ iterN <= MaxIter
        /\ nTHTE <= 2 * iterN
        /\ (pc \in {"loop", "done"} => nTHTE = 2 * iterN))
  /\ [](pc = "loop" => <>(pc \in {"done", "raised"}))

\* A call that used the whole budget: 100 passes, 200 evaluations of THTE.
C1_Witness == InWBT /\ Returned /\ iterN = MaxIter /\ nTHTE = 2 * MaxIter

\* C2: every call of WBT ends by returning tgnu + 273.15 after a pass (the
\* 100th included) with denom > 0 and |cor| < 0.001, or else by returning
\* nan after 100 passes: there is no third outcome.
C2_TwoOutcomes ==
  (InWBT /\ pc \in {"done", "raised"}) =>
    /\ Returned
    /\ \/ /\ convrg = 1 /\ iterN \in 1..MaxIter
          /\ Gt(denom, Zero(FALSE)) /\ Lt(Abs(cor), epsi)
          /\ ret = Add(tgnu, K27315)
       \/ /\ convrg # 1 /\ iterN = MaxIter /\ IsNaN(ret)

\* The same, of the calls that return.
WBTReturnsConvergedOrSentinel ==
  (InWBT /\ Returned) =>
    \/ /\ convrg = 1 /\ iterN \in 1..MaxIter
       /\ Gt(denom, Zero(FALSE)) /\ Lt(Abs(cor), epsi)
       /\ ret = Add(tgnu, K27315)
    \/ /\ convrg # 1 /\ iterN = MaxIter /\ IsNaN(ret)

\* C3: no public function raises an exception, whatever its scalar inputs.
C3_NeverRaises == pc # "raised"

\* C4: given tht = THTE(pres, T0, T0), WBT converges and returns a value
\* whose Celsius temperature is within 0.001 of T0.
C4_RoundTrip ==
  (InWBT /\ seed # Unbound /\ pc \in {"done", "raised"}) =>
    /\ Returned /\ convrg = 1 /\ IsFin(ret)
    /\ NotGt(Abs(Sub(Sub(ret, K27315), seed)), Lit(1, -3))

\* C6 as stated: svpwat(273.16) is 6.1078.
C6_Original ==
  (fn = "svpwat" /\ Returned /\ args = <<Lit(27316, -2)>>) => Eq(ret, Lit(61078, -4))

\* C6 amended: svpwat(273.16) is b / a0^8 with a0 = 0.999996876, about
\* 6.10795: at t - 273.16 = 0 the nested polynomial is a0, not 1.
C6_Svpwat27316 ==
  (fn = "svpwat" /\ Returned /\ args = <<Lit(27316, -2)>>) =>
    /\ Eq(ret, Div(Lit(61078, -4), Pow(Lit(999996876, -9), IntF(8))))
    /\ Gt(ret, Lit(610794, -5)) /\ Lt(ret, Lit(610796, -5))

C6_Witness == fn = "svpwat" /\ Returned /\ args = <<Lit(27316, -2)>> /\ IsFin(ret)

\* C7 as stated: c_to_K(c) - 273.15 is c exactly, for every finite c.
C7_Original ==
  (fn = "c_to_K" /\ Returned) => Eq(Sub(ret, K27315), args[1])

\* C7 amended: c_to_K(c) - 273.15 is c up to the rounding of the sum and of
\* the difference: it differs from c by at most eps * (|c| + |c_to_K(c)|),
\* eps the spacing of the floats at 1 (10^(1 - Prec) here).
C7_RoundTripWithinRounding ==
  (fn = "c_to_K" /\ Returned) =>
    NotGt(Abs(Sub(Sub(ret, K27315), args[1])),
          Mul(Lit(1, 1 - Prec), Add(Abs(args[1]), Abs(ret))))

\* A call whose sum was rounded: the round trip does not give c back.
C7_Witness ==
  fn = "c_to_K" /\ Returned /\ IsFin(ret) /\ ~Eq(Sub(ret, K27315), args[1])

\* C8: at press = 1000 TempPress_to_PotTemp(T, press) is c_to_K(T) exactly,
\* and TempPress_to_PotTemp(20.0, 1000.0) is 293.15.
C8_PotTempAtP0 ==
  (fn = "TempPress_to_PotTemp" /\ pc \in {"done", "raised"} /\ args[2] = Lit(1000, 0)) =>
    /\ Returned
    /\ Eq(ret, c_to_K(args[1]))
    /\ (args[1] = Lit(20, 0) => Eq(ret, Lit(29315, -2)))

C8_Witness ==
  /\ fn = "TempPress_to_PotTemp" /\ Returned
  /\ args = <<Lit(20, 0), Lit(1000, 0)>> /\ Eq(ret, Lit(29315, -2))

\* C9: a pass with denom not greater than 0 leaves tgnu, cor and convrg as
\* they were and only advances iterN; tgnu changes only in a pass with
\* denom > 0, and then by cor = (tht - tenu) / denom.
C9_SkipLeavesGuess ==
  [][ (pc = "loop" /\ pc' = "loop") =>
        /\ iterN' = iterN + 1
        /\ denom' = Sub(tenup', tenu')
        /\ IF Gt(denom', Zero(FALSE))
             THEN /\ cor' = Div(Sub(Tht, tenu'), denom')
                  /\ tgnu' = Add(tgnu, cor')
             ELSE /\ tgnu' = tgnu /\ convrg' = convrg /\ cor' = cor ]_vars

\* A pass that skipped the correction: the guess is still the seed.
C9_Witness ==
  /\ InWBT /\ pc = "loop" /\ iterN >= 2 /\ nskip = iterN
  /\ IsFin(denom) /\ ~Gt(denom, Zero(FALSE)) /\ tgnu = Sub(Tht, K27315)

\* C10: once a pass has found denom not greater than 0 (or nan), every later
\* pass finds the same denom, the call never raises, runs 100 passes and
\* returns nan; so a call that returns a converged value had denom > 0 in
\* every pass.
C10_SkipAbsorbing ==
  /\ []((InWBT /\ Returned /\ convrg = 1) => nskip = 0)
  /\ []((InWBT /\ nskip > 0) => convrg = 0)
  /\ [][ (pc = "loop" /\ nskip > 0) =>
           /\ pc' \in {"loop", "done"}
           /\ (pc' = "loop" => denom' = denom /\ tgnu' = tgnu /\ nskip' = nskip + 1)
           /\ (pc' = "done" => iterN = MaxIter /\ IsNaN(ret')) ]_vars

\* A call stuck on a negative slope from its first pass to the cap.
C10_Witness ==
  /\ InWBT /\ Returned /\ nskip = MaxIter /\ iterN = MaxIter
  /\ Lt(denom, Zero(FALSE)) /\ IsNaN(ret)

====
